---- MODULE Spec2Model ----
(***************************************************************************)
(* BeltGridClicker.py: a grid click macro driven by global hotkeys.        *)
(*                                                                         *)
(* The hotkey callbacks (capture_p00/pTR/pBL, run_macro, _panic,           *)
(* reload_config_hotkey) share the module globals CFG and state.  The      *)
(* short callbacks are single assignments and are modelled as atomic       *)
(* actions; run_macro is long (it sleeps and loops) and is modelled as a   *)
(* process with a program counter named after the source line it is about  *)
(* to execute, so that the other callbacks, and a second run_macro, can be *)
(* delivered between any two of its statements.                            *)
(*                                                                         *)
(* Collaborators: keyDown, moveTo and click either succeed or raise (the    *)
(* PyAutoGUI failsafe); keyUp and the sleeps return.  The +-2 pixel jitter *)
(* of a click target decides nothing in the control flow and is not kept   *)
(* by the run; SpecGeometry examines the targets on their own.             *)
(*                                                                         *)
(* Numbers: screen coordinates are integers; cell_w and cell_h are the     *)
(* quotients total/count and are kept as the pair <<total, count>> (exact  *)
(* rationals, no rounding).  Times are in milliseconds.                    *)
(***************************************************************************)
EXTENDS Integers, Sequences, FiniteSets, TLC

VARIABLES
    CFG,        \* the CFG dict: columns, rows, speed, scan_order
    state,      \* the state dict: p00, pTR, pBL, running
    shiftDown,  \* the keyboard collaborator: is 'shift' held down
    run,        \* per run_macro invocation: program counter and locals
    obs,        \* per run_macro invocation: what the invocation did (history)
    bareClick,  \* history: some click was issued while 'shift' was up
    budget      \* how many hotkey presses have been delivered

vars == <<CFG, state, shiftDown, run, obs, bareClick, budget>>

(***************************************************************************)
(* Bounds of the model.                                                    *)
(***************************************************************************)
MaxCols == 2            \* Spec: largest columns= value a config file holds
MaxRows == 1            \* Spec: largest rows= value a config file holds
MaxShuffleCells == 2    \* Spec: largest grid for which scan_order=3 is explored
SoloMaxCols == 2        \* SpecSolo: largest columns= value
SoloMaxRows == 2        \* SpecSolo: largest rows= value
SoloMaxShuffleCells == 4 \* SpecSolo: largest grid for which scan_order=3 is explored
MaxCoord == 1           \* the pointer is captured at (k, k), k in 0..MaxCoord
MaxStarts == 2          \* run_macro hotkey presses
MaxSignals == 4         \* capture, reload and panic hotkey presses

Procs == {1, 2}         \* run_macro invocations that can be in progress together

(***************************************************************************)
(* Program constants.                                                      *)
(***************************************************************************)
BASE_CLICK_DELAY_MIN == 110
BASE_CLICK_DELAY_MAX == 180
BASE_MOVE_DURATION_MIN == 20
BASE_MOVE_DURATION_MAX == 60
BURST_MIN == 24
BURST_MAX == 48
CFG_MAX == 9999
RANDOM_JITTER == 2

DefaultCFG == [columns |-> 12, rows |-> 24, speed |-> 1, scan_order |-> 1]

None == <<>>                        \* an unset calibration point
Point(x, y) == <<x, y>>
PX(pt) == pt[1]
PY(pt) == pt[2]

Min2(a, b) == IF a < b THEN a ELSE b
Max2(a, b) == IF a > b THEN a ELSE b

(***************************************************************************)
(* load_config.  A config file is the dict `loaded`: per key either no     *)
(* usable value (the key is missing or int() raises), written <<>>, or the *)
(* integer it parses to, written <<n>>.                                    *)
(***************************************************************************)
Absent == <<>>

to_int(v, default, min_v, max_v) ==
    LET val == IF v = Absent THEN default ELSE v[1]
    IN  Min2(max_v, Max2(min_v, val))

load_config(cfg, file) ==
    [columns    |-> to_int(file.columns, cfg.columns, 1, CFG_MAX),
     rows       |-> to_int(file.rows, cfg.rows, 1, CFG_MAX),
     speed      |-> to_int(file.speed, cfg.speed, 1, 2),
     scan_order |-> to_int(file.scan_order, cfg.scan_order, 1, 3)]

\* The files explored: values around the accepted ranges, so that clamping happens.
FileValues(lo, hi) == {<<n>> : n \in lo..hi}
Files(maxCols, maxRows) ==
    [columns    : FileValues(0, maxCols) \cup {Absent},
     rows       : FileValues(0, maxRows) \cup {Absent},
     speed      : FileValues(1, 3) \cup {Absent},
     scan_order : FileValues(0, 3) \cup {Absent}]

\* The configurations explored: the file's counts, and small grids when shuffled.
Explored(cfg, maxCols, maxRows, maxShuffle) ==
    /\ cfg.columns <= maxCols
    /\ cfg.rows <= maxRows
    /\ cfg.scan_order = 3 => cfg.columns * cfg.rows <= maxShuffle

\* What load_config can leave in CFG, starting from cfg
Loaded(cfg, maxCols, maxRows, maxShuffle) ==
    {c \in {load_config(cfg, f) : f \in Files(maxCols, maxRows)} :
        Explored(c, maxCols, maxRows, maxShuffle)}

(***************************************************************************)
(* compute_cell_size and timing_profile.                                   *)
(***************************************************************************)
NoSize == <<None, None>>

\* faulty variant: the extents are not checked
compute_cell_size_unchecked(st, cfg) ==
    IF st.p00 = None \/ st.pTR = None \/ st.pBL = None
    THEN NoSize
    ELSE <<<<PX(st.pTR) - PX(st.p00), cfg.columns>>, <<PY(st.pBL) - PY(st.p00), cfg.rows>>>>

compute_cell_size(st, cfg) ==
    IF st.p00 = None \/ st.pTR = None \/ st.pBL = None
    THEN NoSize
    ELSE LET total_w == PX(st.pTR) - PX(st.p00)
             total_h == PY(st.pBL) - PY(st.p00)
         IN  IF total_w <= 0 \/ total_h <= 0
             THEN NoSize
             ELSE <<<<total_w, cfg.columns>>, <<total_h, cfg.rows>>>>

IsZero(q) == q[1] = 0

\* Exact arithmetic on quotients <<numerator, denominator>>, denominator > 0
Whole(n) == <<n, 1>>
Plus(a, b) == <<a[1] * b[2] + b[1] * a[2], a[2] * b[2]>>
Times(n, a) == <<n * a[1], a[2]>>
Half(a) == <<a[1], 2 * a[2]>>
Same(a, b) == a[1] * b[2] = b[1] * a[2]
AtMost(a, b) == a[1] * b[2] <= b[1] * a[2]

\* random.randint(-RANDOM_JITTER, RANDOM_JITTER), once per axis
Jitters == (-RANDOM_JITTER..RANDOM_JITTER) \X (-RANDOM_JITTER..RANDOM_JITTER)

\* faulty variant: the half cell is left out, the target is the cell's corner
click_target_corner(p00, size, cell, jitter) ==
    [x |-> Plus(Plus(Whole(PX(p00)), Times(cell[2], size[1])), Whole(jitter[1])),
     y |-> Plus(Plus(Whole(PY(p00)), Times(cell[1], size[2])), Whole(jitter[2])),
     jitter |-> jitter]

\* lines 271-272: the point handed to moveTo for cell = <<r, c>>
click_target(p00, size, cell, jitter) ==
    [x |-> Plus(Plus(Plus(Whole(PX(p00)), Times(cell[2], size[1])), Half(size[1])),
                Whole(jitter[1])),
     y |-> Plus(Plus(Plus(Whole(PY(p00)), Times(cell[1], size[2])), Half(size[2])),
                Whole(jitter[2])),
     jitter |-> jitter]

timing_profile(speed) ==
    IF speed = 1
    THEN <<BASE_CLICK_DELAY_MIN, BASE_CLICK_DELAY_MAX,
           BASE_MOVE_DURATION_MIN, BASE_MOVE_DURATION_MAX>>
    ELSE <<BASE_CLICK_DELAY_MIN \div 2, BASE_CLICK_DELAY_MAX \div 2,
           Max2(0, BASE_MOVE_DURATION_MIN \div 2), Max2(0, BASE_MOVE_DURATION_MAX \div 2)>>

(***************************************************************************)
(* The visitation sequence (run_macro, lines 250-260).  Cells are          *)
(* <<r, c>>, 0-based as in the source; sequences are 1-based.              *)
(***************************************************************************)
\* faulty variant: range(rows + 1)
RECURSIVE ColumnCellsInclusive(_, _, _)
ColumnCellsInclusive(c, r, rows) ==
    IF r > rows THEN <<>> ELSE <<<<r, c>>>> \o ColumnCellsInclusive(c, r + 1, rows)

\* [(r, c) for r in range(rows)] for one fixed c
RECURSIVE ColumnCells(_, _, _)
ColumnCells(c, r, rows) ==
    IF r >= rows THEN <<>> ELSE <<<<r, c>>>> \o ColumnCells(c, r + 1, rows)

\* [(r, c) for c in range(cols)] for one fixed r
RECURSIVE RowCells(_, _, _)
RowCells(r, c, cols) ==
    IF c >= cols THEN <<>> ELSE <<<<r, c>>>> \o RowCells(r, c + 1, cols)

\* [(r, c) for c in range(cols) for r in range(rows)]
RECURSIVE ColMajor(_, _, _)
ColMajor(c, cols, rows) ==
    IF c >= cols THEN <<>> ELSE ColumnCells(c, 0, rows) \o ColMajor(c + 1, cols, rows)

\* [(r, c) for r in range(rows) for c in range(cols)]
RECURSIVE RowMajor(_, _, _)
RowMajor(r, cols, rows) ==
    IF r >= rows THEN <<>> ELSE RowCells(r, 0, cols) \o RowMajor(r + 1, cols, rows)

\* every way to line up the members of a set
RECURSIVE Arrangements(_)
Arrangements(S) ==
    IF S = {} THEN {<<>>}
    ELSE UNION {{<<x>> \o t : t \in Arrangements(S \ {x})} : x \in S}

\* random.shuffle: any rearrangement of the list
Shuffles(s) == {[i \in 1..Len(s) |-> s[f[i]]] : f \in Arrangements(1..Len(s))}

\* faulty variant: the two scan orders exchanged
BuildSequenceSwapped(cols, rows, order) ==
    IF order = 1 THEN {RowMajor(0, cols, rows)}
    ELSE IF order = 2 THEN {ColMajor(0, cols, rows)}
    ELSE Shuffles(RowMajor(0, cols, rows))

BuildSequence(cols, rows, order) ==
    IF order = 1 THEN {ColMajor(0, cols, rows)}
    ELSE IF order = 2 THEN {RowMajor(0, cols, rows)}
    ELSE Shuffles(RowMajor(0, cols, rows))

\* faulty variant: random.randint(0, BURST_MAX)
BurstDrawsFromZero(clicks, len) ==
    {Min2(clicks + d, len + 1) : d \in 0..BURST_MAX}

\* random.randint(BURST_MIN, BURST_MAX).  A run makes at most `len` clicks, so
\* every threshold above `len` is kept as len + 1: it is never reached.
BurstDraws(clicks, len) ==
    {Min2(clicks + d, len + 1) : d \in BURST_MIN..BURST_MAX}

(***************************************************************************)
(* State of one run_macro invocation.                                      *)
(***************************************************************************)
IdleRun ==
    [pc |-> "idle", cell_w |-> None, cell_h |-> None, cols |-> 0, rows |-> 0,
     order |-> 0, timing |-> <<>>, clicks |-> 0, sequence |-> <<>>,
     next_burst_at |-> 0, idx |-> 0]

FreshObs ==
    [result     |-> "none",  \* how the invocation returned
     keyDowns   |-> 0,       \* successful keyDown('shift') calls
     keyUps     |-> 0,       \* keyUp('shift') calls
     clicks     |-> 0,       \* clicks performed
     stopAt     |-> -1,      \* the step whose line-267 check read running = False
     sawStop    |-> FALSE,   \* some read of running by the loop returned False
     failed     |-> FALSE,   \* keyDown, moveTo or click raised
     unitRests  |-> 0,       \* unit rests slept
     burstRests |-> 0,       \* burst rests slept
     burstAt    |-> <<>>,    \* the click count at each burst rest
     cancelled  |-> <<>>,    \* set when _panic clears running during the click loop
     ignored    |-> "",      \* "idle" / "delay": _panic found running false then
     started    |-> <<>>,    \* the locals when the startup delay began
     p00AtBegin |-> None,    \* state["p00"] when the run began (line 245)
     sequence   |-> <<>>,    \* the sequence built
     clicked    |-> <<>>,    \* the cells clicked, in click order
     usedOrigin |-> None,    \* the p00 the last click target was computed from
     usedSize   |-> <<>>,    \* the <<cell_w, cell_h>> the last click target used
     usedOrder  |-> 0,       \* the order the last unit-rest check used
     usedTiming |-> <<>>,    \* the timing the last moveTo / delay used
     target     |-> <<>>]    \* Aim: the point handed to moveTo, and its jitter

Starting == {"L242"}
Running == {"L246", "L248", "L267", "L274", "L282", "L289"}
Finally == {"L304", "L305"}

Return(p, result) ==
    /\ run' = [run EXCEPT ![p] = IdleRun]
    /\ obs' = [obs EXCEPT ![p].result = result]

(***************************************************************************)
(* What the statements of run_macro read.                                  *)
(***************************************************************************)
\* faulty variant: the guard at line 222 never rejects
NeverAlreadyRunning == FALSE
AlreadyRunning == state["running"]                  \* line 222
SeqCols(p) == run[p].cols                           \* lines 253, 256, 259
SeqRows(p) == run[p].rows
SeqOrder(p) == run[p].order                         \* lines 251, 254
\* faulty variant: the loop re-reads CFG["scan_order"] instead of its local
LoopOrderFromCFG(p) == CFG.scan_order
LoopOrder(p) == run[p].order                        \* lines 290, 294
LoopSize(p) == <<run[p].cell_w, run[p].cell_h>>     \* lines 271, 272
LoopTiming(p) == run[p].timing                      \* lines 274, 279
LoopOrigin(p) == state["p00"]                       \* lines 271, 272
\* faulty variant: the loop does not look at the running flag
LoopNeverCancelled == FALSE
LoopCancelled == ~state["running"]                  \* line 267

\* faulty variant: no unit ends at the end of the sequence
EndOfUnitBetween(seq, i, order) ==
    IF order = 1 THEN i < Len(seq) /\ seq[i + 1][2] # seq[i][2]
    ELSE IF order = 2 THEN i < Len(seq) /\ seq[i + 1][1] # seq[i][1]
    ELSE FALSE

\* faulty variant: every step of an ordered scan ends a unit
EndOfUnitEveryStep(seq, i, order) == order \in {1, 2}

\* lines 292 and 296: the step at place i (1-based) ends its column or row
EndOfUnit(seq, i, order) ==
    IF order = 1 THEN i = Len(seq) \/ seq[i + 1][2] # seq[i][2]
    ELSE IF order = 2 THEN i = Len(seq) \/ seq[i + 1][1] # seq[i][1]
    ELSE FALSE

\* faulty variant: no finally block
RaiseSkipsFinally(p) == [run EXCEPT ![p] = IdleRun]

\* lines 247, 303: an exception raised inside the try block runs the finally block
RaiseInTry(p) == [run EXCEPT ![p].pc = "L304"]

(***************************************************************************)
(* Initial state: main() has called load_config; nothing is calibrated and  *)
(* nothing runs.                                                           *)
(***************************************************************************)
InitWith(maxCols, maxRows, maxShuffle) ==
    /\ CFG \in Loaded(DefaultCFG, maxCols, maxRows, maxShuffle)
    /\ state = [p00 |-> None, pTR |-> None, pBL |-> None, running |-> FALSE]
    /\ shiftDown = FALSE
    /\ run = [p \in Procs |-> IdleRun]
    /\ obs = [p \in Procs |-> FreshObs]
    /\ bareClick = FALSE
    /\ budget = [starts |-> 0, signals |-> 0]

(***************************************************************************)
(* The short hotkey callbacks.                                             *)
(***************************************************************************)
Positions == {Point(k, k) : k \in 0..MaxCoord}    \* pag.position()

Capture(key) ==
    /\ budget.signals < MaxSignals
    /\ \E pos \in Positions : state' = [state EXCEPT ![key] = pos]
    /\ budget' = [budget EXCEPT !.signals = @ + 1]
    /\ UNCHANGED <<CFG, shiftDown, run, obs, bareClick>>

capture_p00 == Capture("p00")
capture_pTR == Capture("pTR")
capture_pBL == Capture("pBL")

Reload(maxCols, maxRows, maxShuffle) ==
    /\ budget.signals < MaxSignals
    /\ CFG' \in Loaded(CFG, maxCols, maxRows, maxShuffle)
    /\ budget' = [budget EXCEPT !.signals = @ + 1]
    /\ UNCHANGED <<state, shiftDown, run, obs, bareClick>>

reload_config_hotkey == Reload(MaxCols, MaxRows, MaxShuffleCells)
reload_config_solo == Reload(SoloMaxCols, SoloMaxRows, SoloMaxShuffleCells)

\* History kept by _panic: what a run in its click loop had done when the
\* flag was cleared; an iteration past its line-267 check may still click.
InLoop == {"L267", "L274", "L282", "L289"}
Cancelled(p) ==
    IF state["running"] /\ run[p].pc \in InLoop /\ obs[p].cancelled = <<>>
    THEN [obs[p] EXCEPT !.cancelled =
             [clicks |-> obs[p].clicks + (IF run[p].pc = "L274" THEN 1 ELSE 0),
              unitRests |-> obs[p].unitRests,
              burstRests |-> obs[p].burstRests]]
    ELSE obs[p]

\* History kept by _panic: it found the flag false while the slot was idle or
\* the invocation was in its startup delay.
Ignored(p) ==
    IF ~state["running"] /\ run[p].pc \in Starting
    THEN [obs[p] EXCEPT !.ignored = "delay"]
    ELSE IF ~state["running"] /\ run[p].pc = "idle" /\ obs[p].ignored = ""
    THEN [obs[p] EXCEPT !.ignored = "idle"]
    ELSE obs[p]

_panic ==
    /\ budget.signals < MaxSignals
    /\ state' = IF state["running"] THEN [state EXCEPT !["running"] = FALSE] ELSE state
    /\ obs' = [p \in Procs |-> IF state["running"] THEN Cancelled(p) ELSE Ignored(p)]
    /\ budget' = [budget EXCEPT !.signals = @ + 1]
    /\ UNCHANGED <<CFG, shiftDown, run, bareClick>>

(***************************************************************************)
(* run_macro, statement by statement.                                      *)
(***************************************************************************)
\* The start hotkey is delivered: run_macro is called.  The invocation takes
\* the first free slot (the slots are interchangeable).
Start(p) ==
    /\ run[p].pc = "idle"
    /\ \A q \in Procs : q < p => run[q].pc # "idle"
    /\ budget.starts < MaxStarts
    /\ run' = [run EXCEPT ![p].pc = "L222"]
    /\ obs' = [obs EXCEPT ![p] = FreshObs]
    /\ budget' = [budget EXCEPT !.starts = @ + 1]
    /\ UNCHANGED <<CFG, state, shiftDown, bareClick>>

\* lines 222-224
CheckRunning(p) ==
    /\ run[p].pc = "L222"
    /\ IF AlreadyRunning
       THEN Return(p, "AlreadyRunning")
       ELSE /\ run' = [run EXCEPT ![p].pc = "L226"]
            /\ obs' = obs
    /\ UNCHANGED <<CFG, state, shiftDown, bareClick, budget>>

\* lines 226-228
CheckCalibration(p) ==
    /\ run[p].pc = "L226"
    /\ IF state["p00"] = None \/ state["pTR"] = None \/ state["pBL"] = None
       THEN Return(p, "CalibrationIncomplete")
       ELSE /\ run' = [run EXCEPT ![p].pc = "L230"]
            /\ obs' = obs
    /\ UNCHANGED <<CFG, state, shiftDown, bareClick, budget>>

\* lines 230-233
CellSize(p) ==
    /\ run[p].pc = "L230"
    /\ LET size == compute_cell_size(state, CFG)
       IN  IF size[1] = None \/ size[2] = None \/ IsZero(size[1]) \/ IsZero(size[2])
           THEN Return(p, "NoCellSize")
           ELSE /\ run' = [run EXCEPT ![p].pc = "L235",
                                      ![p].cell_w = size[1], ![p].cell_h = size[2]]
                /\ obs' = obs
    /\ UNCHANGED <<CFG, state, shiftDown, bareClick, budget>>

\* lines 235-242: read the configuration, then begin the startup delay
ReadConfig(p) ==
    /\ run[p].pc = "L235"
    /\ LET timing == timing_profile(CFG.speed)
       IN  /\ run' = [run EXCEPT ![p].pc = "L242",
                                 ![p].cols = CFG.columns, ![p].rows = CFG.rows,
                                 ![p].order = CFG.scan_order, ![p].timing = timing]
           /\ obs' = [obs EXCEPT ![p].started =
                        [cell_w |-> run[p].cell_w, cell_h |-> run[p].cell_h,
                         cols |-> CFG.columns, rows |-> CFG.rows,
                         order |-> CFG.scan_order, timing |-> timing]]
    /\ UNCHANGED <<CFG, state, shiftDown, bareClick, budget>>

\* faulty variant: a panic during the startup delay is remembered and the
\* invocation gives up when the delay is over
BeginRunUnlessPanicked(p) ==
    /\ run[p].pc = "L242"
    /\ IF obs[p].ignored = "delay"
       THEN /\ state' = state
            /\ Return(p, "cancelled")
       ELSE /\ state' = [state EXCEPT !["running"] = TRUE]
            /\ run' = [run EXCEPT ![p].pc = "L246"]
            /\ obs' = [obs EXCEPT ![p].p00AtBegin = state["p00"]]
    /\ UNCHANGED <<CFG, shiftDown, bareClick, budget>>

\* lines 242-245: the startup delay is over
BeginRun(p) ==
    /\ run[p].pc = "L242"
    /\ state' = [state EXCEPT !["running"] = TRUE]
    /\ run' = [run EXCEPT ![p].pc = "L246"]
    /\ obs' = [obs EXCEPT ![p].p00AtBegin = state["p00"]]
    /\ UNCHANGED <<CFG, shiftDown, bareClick, budget>>

\* line 246: pag.keyDown('shift'), outside the try: a failure propagates at once
KeyDown(p) ==
    /\ run[p].pc = "L246"
    /\ \E ok \in BOOLEAN :
        IF ok
        THEN /\ shiftDown' = TRUE
             /\ run' = [run EXCEPT ![p].pc = "L248"]
             /\ obs' = [obs EXCEPT ![p].keyDowns = @ + 1]
        ELSE /\ shiftDown' = shiftDown
             /\ run' = [run EXCEPT ![p] = IdleRun]
             /\ obs' = [obs EXCEPT ![p].result = "raised", ![p].failed = TRUE]
    /\ UNCHANGED <<CFG, state, bareClick, budget>>

\* lines 248-263
BuildPlan(p) ==
    /\ run[p].pc = "L248"
    /\ \E s \in BuildSequence(SeqCols(p), SeqRows(p), SeqOrder(p)) :
       \E nb \in BurstDraws(0, Len(s)) :
        /\ run' = [run EXCEPT ![p].pc = "L267", ![p].clicks = 0, ![p].sequence = s,
                              ![p].next_burst_at = nb, ![p].idx = 0]
        /\ obs' = [obs EXCEPT ![p].sequence = s]
    /\ UNCHANGED <<CFG, state, shiftDown, bareClick, budget>>

\* lines 266-268: the for statement and the cancellation check
LoopTop(p) ==
    /\ run[p].pc = "L267"
    /\ IF run[p].idx >= Len(run[p].sequence)
       THEN /\ run' = [run EXCEPT ![p].pc = "L304"]
            /\ obs' = [obs EXCEPT ![p].result = "done"]
       ELSE IF LoopCancelled
       THEN /\ run' = [run EXCEPT ![p].pc = "L304"]
            /\ obs' = [obs EXCEPT ![p].result = "done",
                                  ![p].sawStop = TRUE,
                                  ![p].stopAt = IF ~state["running"] /\ @ = -1
                                                THEN run[p].idx ELSE @]
       ELSE /\ run' = [run EXCEPT ![p].pc = "L274"]
            /\ obs' = [obs EXCEPT ![p].sawStop = @ \/ ~state["running"],
                                  ![p].stopAt = IF ~state["running"] /\ @ = -1
                                                THEN run[p].idx ELSE @]
    /\ UNCHANGED <<CFG, state, shiftDown, bareClick, budget>>

\* lines 270-276: target, moveTo, click, count
MoveClick(p) ==
    /\ run[p].pc = "L274"
    /\ \E outcome \in {"clicked", "moveTo raised", "click raised"} :
        IF outcome = "clicked"
        THEN /\ run' = [run EXCEPT ![p].pc = "L282", ![p].clicks = @ + 1]
             /\ obs' = [obs EXCEPT ![p].clicks = @ + 1,
                                   ![p].clicked = Append(@, run[p].sequence[run[p].idx + 1]),
                                   ![p].usedOrigin = LoopOrigin(p),
                                   ![p].usedSize = LoopSize(p),
                                   ![p].usedTiming = LoopTiming(p)]
             /\ bareClick' = (bareClick \/ ~shiftDown)
        ELSE /\ run' = RaiseInTry(p)
             /\ obs' = [obs EXCEPT ![p].result = "raised", ![p].failed = TRUE]
             /\ bareClick' = bareClick
    /\ UNCHANGED <<CFG, state, shiftDown, budget>>

\* lines 279-284: the click delay, then the burst rest
BurstCheck(p) ==
    /\ run[p].pc = "L282"
    /\ IF run[p].clicks >= run[p].next_burst_at /\ state["running"]
       THEN \E nb \in BurstDraws(run[p].clicks, Len(run[p].sequence)) :
            /\ run' = [run EXCEPT ![p].pc = "L289", ![p].next_burst_at = nb]
            /\ obs' = [obs EXCEPT ![p].burstRests = @ + 1,
                                  ![p].burstAt = Append(@, run[p].clicks)]
       ELSE /\ run' = [run EXCEPT ![p].pc = "L289"]
            /\ obs' = [obs EXCEPT ![p].sawStop =
                          @ \/ (run[p].clicks >= run[p].next_burst_at /\ ~state["running"])]
    /\ UNCHANGED <<CFG, state, shiftDown, bareClick, budget>>

\* lines 289-300: the unit rest, then the next iteration
UnitCheck(p) ==
    /\ run[p].pc = "L289"
    /\ LET seq == run[p].sequence
           i == run[p].idx + 1                       \* 1-based place of this step
           order == LoopOrder(p)
           rest == state["running"] /\ EndOfUnit(seq, i, order)
       IN  /\ run' = [run EXCEPT ![p].pc = "L267", ![p].idx = @ + 1]
           /\ obs' = [obs EXCEPT ![p].unitRests = IF rest THEN @ + 1 ELSE @,
                                 ![p].sawStop = @ \/ ~state["running"],
                                 ![p].usedOrder = IF state["running"] THEN order ELSE @]
    /\ UNCHANGED <<CFG, state, shiftDown, bareClick, budget>>

\* line 304, in the finally block: pag.keyUp('shift')
KeyUp(p) ==
    /\ run[p].pc = "L304"
    /\ shiftDown' = FALSE
    /\ run' = [run EXCEPT ![p].pc = "L305"]
    /\ obs' = [obs EXCEPT ![p].keyUps = @ + 1]
    /\ UNCHANGED <<CFG, state, bareClick, budget>>

\* line 305, then run_macro returns or the exception propagates
EndRun(p) ==
    /\ run[p].pc = "L305"
    /\ state' = [state EXCEPT !["running"] = FALSE]
    /\ run' = [run EXCEPT ![p] = IdleRun]
    /\ UNCHANGED <<CFG, shiftDown, obs, bareClick, budget>>

run_macro(p) ==
    \/ Start(p)
    \/ CheckRunning(p)
    \/ CheckCalibration(p)
    \/ CellSize(p)
    \/ ReadConfig(p)
    \/ BeginRun(p)
    \/ KeyDown(p)
    \/ BuildPlan(p)
    \/ LoopTop(p)
    \/ MoveClick(p)
    \/ BurstCheck(p)
    \/ UnitCheck(p)
    \/ KeyUp(p)
    \/ EndRun(p)

\* the statements of an invocation in progress (the hotkey press excluded)
RunStep(p) ==
    \/ CheckRunning(p)
    \/ CheckCalibration(p)
    \/ CellSize(p)
    \/ ReadConfig(p)
    \/ BeginRun(p)
    \/ KeyDown(p)
    \/ BuildPlan(p)
    \/ LoopTop(p)
    \/ MoveClick(p)
    \/ BurstCheck(p)
    \/ UnitCheck(p)
    \/ KeyUp(p)
    \/ EndRun(p)

(***************************************************************************)
(* Spec: the hotkeys arrive at any moment, start included, so that two     *)
(* invocations of run_macro can be in progress together.                   *)
(***************************************************************************)
Init == InitWith(MaxCols, MaxRows, MaxShuffleCells)

Next ==
    \/ capture_p00
    \/ capture_pTR
    \/ capture_pBL
    \/ reload_config_hotkey
    \/ _panic
    \/ \E p \in Procs : run_macro(p)

Spec == Init /\ [][Next]_vars

(***************************************************************************)
(* SpecSolo: the start hotkey is pressed only while no invocation is in    *)
(* progress; the other hotkeys arrive at any moment.  Larger grids.        *)
(***************************************************************************)
InitSolo == InitWith(SoloMaxCols, SoloMaxRows, SoloMaxShuffleCells)

NextSolo ==
    \/ capture_p00
    \/ capture_pTR
    \/ capture_pBL
    \/ reload_config_solo
    \/ _panic
    \/ run_macro(1)

SpecSolo == InitSolo /\ [][NextSolo]_vars

(***************************************************************************)
(* Properties.                                                             *)
(***************************************************************************)
Returned(p) == run[p].pc = "idle" /\ obs[p].result # "none"

\* C1: a run that pressed 'shift' releases it exactly once, in its finally
\* block and not before: when the sequence is exhausted, when the loop is
\* cancelled, and when moveTo or click raises.
C1_ShiftReleasedOnce ==
    \A p \in Procs :
        /\ obs[p].keyDowns <= 1
        /\ obs[p].keyDowns = 0 /\ run[p].pc \notin Finally \cup {"idle"} => obs[p].keyUps = 0
        /\ obs[p].keyDowns = 1 =>
              obs[p].keyUps = IF run[p].pc \in {"L305", "idle"} THEN 1 ELSE 0

C1_Witness ==
    \E p \in Procs :
        /\ Returned(p)
        /\ obs[p].failed
        /\ obs[p].clicks >= 1
        /\ obs[p].keyDowns = 1
        /\ obs[p].keyUps = 1

\* C2: every click is issued while 'shift' is held down.
C2_ClicksUnderShift == ~bareClick

\* C3: at most one invocation is in the startup delay or in the click loop.
C3_AtMostOneActive ==
    Cardinality({p \in Procs : run[p].pc \in Starting \cup Running}) <= 1

\* C4: a start request that finds the running flag true returns with the
\* already-running warning and changes nothing else: not the flag, the
\* calibration, the configuration, the key, nor the other invocation.
C4_RejectedStartChangesNothing ==
    [][\A p \in Procs :
          (run[p].pc = "L222" /\ state["running"] /\ run'[p] # run[p]) =>
              /\ run'[p] = IdleRun
              /\ obs'[p] = [obs[p] EXCEPT !.result = "AlreadyRunning"]
              /\ \A q \in Procs \ {p} : run'[q] = run[q] /\ obs'[q] = obs[q]
              /\ UNCHANGED <<CFG, state, shiftDown, bareClick>>]_vars

C4_Witness ==
    \E p, q \in Procs :
        /\ p # q
        /\ Returned(p)
        /\ obs[p].result = "AlreadyRunning"
        /\ run[q].pc = "L282"
        /\ run[q].clicks = 1
        /\ shiftDown
        /\ state["running"]

\* C5: a run whose check at the top of step k is the first to find the
\* running flag false makes exactly k clicks, and has released 'shift'
\* exactly once when it returns.
C5_CancelAtStepK ==
    \A p \in Procs :
        obs[p].stopAt >= 0 =>
            /\ obs[p].clicks = obs[p].stopAt
            /\ Returned(p) => obs[p].keyUps = 1

C5_Witness ==
    \E p \in Procs :
        /\ Returned(p)
        /\ obs[p].stopAt = 2
        /\ obs[p].clicks = 2
        /\ Len(obs[p].sequence) = 4
        /\ obs[p].keyUps = 1

\* C6: every click target of a run is computed from the calibration point
\* p00 as it was when the run began, whatever is captured during the loop.
C6_TargetsFromStartCalibration ==
    \A p \in Procs :
        obs[p].clicks > 0 => obs[p].usedOrigin = obs[p].p00AtBegin

\* C7: the columns, rows, scan order, cell size and timing a run uses are the
\* ones it held when its startup delay began, whatever is reloaded later.
C7_ConfigFixedAtStarting ==
    \A p \in Procs :
        obs[p].started # <<>> =>
            LET at == obs[p].started
            IN  /\ obs[p].sequence # <<>> =>
                      obs[p].sequence \in BuildSequence(at.cols, at.rows, at.order)
                /\ obs[p].clicks > 0 =>
                      /\ obs[p].usedSize = <<at.cell_w, at.cell_h>>
                      /\ obs[p].usedTiming = at.timing
                /\ obs[p].usedOrder # 0 => obs[p].usedOrder = at.order

C7_Witness ==
    \E p \in Procs :
        /\ Returned(p)
        /\ obs[p].result = "done"
        /\ obs[p].clicks = 2
        /\ obs[p].usedOrder = 2
        /\ obs[p].started.cols = 2
        /\ CFG.scan_order = 1
        /\ CFG.columns = 1
        /\ CFG.speed = 2
        /\ obs[p].usedTiming = timing_profile(1)

\* C8: the sequence a run builds holds every cell of rows x columns exactly
\* once, so a run that completes without finding the running flag false and
\* without a failure clicks every cell exactly once: columns * rows clicks.
Cells(cols, rows) == (0..(rows - 1)) \X (0..(cols - 1))
EachOnce(seq, cells) ==
    /\ Len(seq) = Cardinality(cells)
    /\ \A cell \in cells : Cardinality({i \in 1..Len(seq) : seq[i] = cell}) = 1

C8_SequenceCoversGrid ==
    \A p \in Procs :
        obs[p].sequence # <<>> =>
            LET at == obs[p].started
            IN  /\ Len(obs[p].sequence) = at.cols * at.rows
                /\ EachOnce(obs[p].sequence, Cells(at.cols, at.rows))
                /\ Returned(p) /\ obs[p].result = "done" /\ ~obs[p].sawStop =>
                      /\ obs[p].clicks = at.cols * at.rows
                      /\ EachOnce(obs[p].clicked, Cells(at.cols, at.rows))

C8_Witness ==
    \E p \in Procs :
        /\ Returned(p)
        /\ obs[p].result = "done"
        /\ ~obs[p].sawStop
        /\ obs[p].started.order = 3
        /\ obs[p].clicks = 4
        /\ obs[p].clicked = <<<<1, 0>>, <<0, 1>>, <<1, 1>>, <<0, 0>>>>

\* C9: the clicks follow the sequence built, which for scan order 1 goes
\* column by column, each column top to bottom, and for scan order 2 row by
\* row, each row left to right; the two 2 x 2 sequences are as listed.
ColumnFirst(a, b) == a[2] < b[2] \/ (a[2] = b[2] /\ a[1] < b[1])
RowFirst(a, b) == a[1] < b[1] \/ (a[1] = b[1] /\ a[2] < b[2])

C9_ScanOrder ==
    \A p \in Procs :
        obs[p].sequence # <<>> =>
            LET at == obs[p].started
                seq == obs[p].sequence
            IN  /\ obs[p].clicked = SubSeq(seq, 1, obs[p].clicks)
                /\ at.order = 1 =>
                      \A i, j \in 1..Len(seq) : i < j <=> ColumnFirst(seq[i], seq[j])
                /\ at.order = 2 =>
                      \A i, j \in 1..Len(seq) : i < j <=> RowFirst(seq[i], seq[j])
                /\ at.order = 1 /\ at.cols = 2 /\ at.rows = 2 =>
                      seq = <<<<0, 0>>, <<1, 0>>, <<0, 1>>, <<1, 1>>>>
                /\ at.order = 2 /\ at.cols = 2 /\ at.rows = 2 =>
                      seq = <<<<0, 0>>, <<0, 1>>, <<1, 0>>, <<1, 1>>>>

C9_Witness ==
    \E p \in Procs :
        /\ Returned(p)
        /\ obs[p].result = "done"
        /\ obs[p].started.order = 1
        /\ obs[p].clicked = <<<<0, 0>>, <<1, 0>>, <<0, 1>>, <<1, 1>>>>

\* C10 as claimed: under scan order 1 with at least two columns, a run that
\* completes without finding the running flag false rests rows - 1 times.
UncancelledColumnRun(p) ==
    /\ Returned(p)
    /\ obs[p].result = "done"
    /\ ~obs[p].sawStop
    /\ obs[p].started.order = 1
    /\ obs[p].started.cols >= 2

C10_UnitRestsRowsMinusOne ==
    \A p \in Procs :
        UncancelledColumnRun(p) => obs[p].unitRests = obs[p].started.rows - 1

\* C10 as amended: such a run rests once after every column, the final
\* column included: columns times.
C10_UnitRestPerColumn ==
    \A p \in Procs :
        UncancelledColumnRun(p) => obs[p].unitRests = obs[p].started.cols

C10_Witness ==
    \E p \in Procs :
        /\ UncancelledColumnRun(p)
        /\ obs[p].started.rows = 2
        /\ obs[p].clicks = 4
        /\ obs[p].unitRests = 2

\* C11: a start request whose calibration check finds a point unset, or
\* pTR.x <= p00.x, or pBL.y <= p00.y, returns at once: it has not entered the
\* startup delay, pressed no key and clicked nothing, and it leaves the
\* running flag false and the calibration, the configuration and the key as
\* they were.
Unset == state["p00"] = None \/ state["pTR"] = None \/ state["pBL"] = None
BadExtent ==
    IF Unset THEN FALSE
    ELSE PX(state["pTR"]) <= PX(state["p00"]) \/ PY(state["pBL"]) <= PY(state["p00"])

FindsBadCalibration(p) ==
    \/ run[p].pc = "L226" /\ Unset
    \/ run[p].pc = "L230" /\ (Unset \/ BadExtent)

C11_BadCalibrationNoRun ==
    [][\A p \in Procs :
          (FindsBadCalibration(p) /\ run'[p] # run[p]) =>
              /\ run'[p] = IdleRun
              /\ obs'[p] = [obs[p] EXCEPT !.result = obs'[p].result]
              /\ obs'[p].result \in {"CalibrationIncomplete", "NoCellSize"}
              /\ obs[p].started = <<>>
              /\ obs[p].keyDowns = 0 /\ obs[p].clicks = 0
              /\ ~state["running"]
              /\ UNCHANGED <<CFG, state, shiftDown, bareClick>>]_vars

C11_Witness ==
    /\ Returned(1)
    /\ obs[1].result = "NoCellSize"
    /\ state["p00"] = Point(1, 1)
    /\ state["pTR"] = Point(0, 0)
    /\ state["pBL"] = Point(1, 1)
    /\ CFG.columns = 2
    /\ ~state["running"]

(***************************************************************************)
(* SpecGeometry: compute_cell_size and the click target as functions of    *)
(* their inputs.  The initial states are calibrations and grids, among     *)
(* them the 240 x 120 area with 24 columns and 12 rows; Aim computes the   *)
(* cell size and the target of one cell as lines 230-233 and 271-272 do.   *)
(***************************************************************************)
GeomMaxCoord == 1       \* calibration coordinates 0..GeomMaxCoord, and 120, 240
GeomMaxCount == 2       \* columns and rows 1..GeomMaxCount, and 24 x 12

GeomCoords == (0..GeomMaxCoord) \cup {120, 240}
GeomGrids == ((1..GeomMaxCount) \X (1..GeomMaxCount)) \cup {<<24, 12>>}

InitGeometry ==
    /\ \E g \in GeomGrids : CFG = [DefaultCFG EXCEPT !.columns = g[1], !.rows = g[2]]
    /\ \E x, y, w, h \in GeomCoords :
          state = [p00 |-> Point(x, y), pTR |-> Point(w, y), pBL |-> Point(x, h),
                   running |-> FALSE]
    /\ shiftDown = FALSE
    /\ run = [p \in Procs |-> IdleRun]
    /\ obs = [p \in Procs |-> FreshObs]
    /\ bareClick = FALSE
    /\ budget = [starts |-> 0, signals |-> 0]

Aim ==
    /\ obs[1].target = <<>>
    /\ LET size == compute_cell_size(state, CFG)
       IN  /\ size # NoSize
           /\ \E r \in 0..(CFG.rows - 1), c \in 0..(CFG.columns - 1), j \in Jitters :
                 obs' = [obs EXCEPT ![1].usedOrigin = state["p00"],
                                    ![1].usedSize = size,
                                    ![1].clicked = <<<<r, c>>>>,
                                    ![1].target = click_target(state["p00"], size, <<r, c>>, j)]
    /\ UNCHANGED <<CFG, state, shiftDown, run, bareClick, budget>>

NextGeometry == Aim

SpecGeometry == InitGeometry /\ [][NextGeometry]_vars

\* C12: for a valid calibration the cell size is the calibrated extent divided
\* by the count (cellWidth * columns = pTR.x - p00.x, cellHeight * rows =
\* pBL.y - p00.y), the un-jittered target of cell (r, c) is the centre
\* p00 + (c + 1/2) * cellWidth, p00 + (r + 1/2) * cellHeight, and the point
\* handed to moveTo is within 2 pixels of that centre on each axis; with
\* p00 = (0, 0), pTR = (240, 0), pBL = (0, 120), 24 columns and 12 rows the
\* cell is 10 x 10, cell (0, 0) has centre (5, 5) and cell (11, 23) has
\* centre (235, 115).
Aimed == obs[1].target # <<>>
Centre(origin, extent, count, k) == <<2 * count * origin + (2 * k + 1) * extent, 2 * count>>
Off(a, b) == <<a[1] * b[2] - b[1] * a[2], a[2] * b[2]>>
Within(a, b, d) == AtMost(Off(a, b), Whole(d)) /\ AtMost(Off(b, a), Whole(d))
Example ==
    /\ state["p00"] = Point(0, 0) /\ state["pTR"] = Point(240, 0)
    /\ state["pBL"] = Point(0, 120) /\ CFG.columns = 24 /\ CFG.rows = 12

C12_Geometry ==
    Aimed =>
        LET t == obs[1].target
            cell == obs[1].clicked[1]
            size == obs[1].usedSize
            width == PX(state["pTR"]) - PX(state["p00"])
            height == PY(state["pBL"]) - PY(state["p00"])
            cx == Centre(PX(state["p00"]), width, CFG.columns, cell[2])
            cy == Centre(PY(state["p00"]), height, CFG.rows, cell[1])
        IN  /\ Same(Times(CFG.columns, size[1]), Whole(width))
            /\ Same(Times(CFG.rows, size[2]), Whole(height))
            /\ Same(Plus(t.x, Whole(-t.jitter[1])), cx)
            /\ Same(Plus(t.y, Whole(-t.jitter[2])), cy)
            /\ Within(t.x, cx, RANDOM_JITTER) /\ Within(t.y, cy, RANDOM_JITTER)
            /\ AtMost(Whole(PX(state["p00"])), cx) /\ AtMost(cx, Whole(PX(state["pTR"])))
            /\ AtMost(Whole(PY(state["p00"])), cy) /\ AtMost(cy, Whole(PY(state["pBL"])))
            /\ Example =>
                  /\ Same(size[1], Whole(10)) /\ Same(size[2], Whole(10))
                  /\ cell = <<0, 0>> => Same(cx, Whole(5)) /\ Same(cy, Whole(5))
                  /\ cell = <<11, 23>> => Same(cx, Whole(235)) /\ Same(cy, Whole(115))

C12_Witness ==
    /\ Aimed /\ Example
    /\ obs[1].clicked = <<<<11, 23>>>>
    /\ obs[1].target.jitter = <<2, -2>>
    /\ Same(obs[1].target.x, Whole(237)) /\ Same(obs[1].target.y, Whole(113))

\* C13: in a run that is not cancelled, the unit-rest check that follows a
\* click sleeps if and only if the scan order is 1 or 2 and no later cell of
\* the sequence lies in the clicked cell's unit (its column for order 1, its
\* row for order 2): after the last cell of every unit, the final unit
\* included, never in the middle of a unit, and never with scan order 3.
UnitOf(cell, order) == IF order = 1 THEN cell[2] ELSE cell[1]
LastOfUnit(seq, i, order) ==
    \A j \in (i + 1)..Len(seq) : UnitOf(seq[j], order) # UnitOf(seq[i], order)
UnitStep(p) == run[p].pc = "L289" /\ run'[p].pc = "L267"
C13_UnitRestAtUnitEnd ==
    [][\A p \in Procs :
          (UnitStep(p) /\ state["running"] /\ ~obs[p].sawStop) =>
              LET order == obs[p].started.order
                  seq == obs[p].sequence
                  i == Len(obs[p].clicked)
                  rested == obs'[p].unitRests - obs[p].unitRests
              IN  /\ seq[i] = obs[p].clicked[i]
                  /\ rested \in {0, 1}
                  /\ rested = 1 <=> (order \in {1, 2} /\ LastOfUnit(seq, i, order))]_vars

\* a row-by-row run of a 2 x 2 grid has rested after its second click and not
\* after its third
C13_Witness ==
    /\ run[1].pc = "L267" /\ ~obs[1].sawStop /\ state["running"]
    /\ obs[1].started.order = 2 /\ Len(obs[1].sequence) = 4
    /\ Len(obs[1].clicked) = 3 /\ obs[1].unitRests = 1

(***************************************************************************)
(* SpecBurst: one invocation at a time on a calibrated grid large enough   *)
(* for a second burst rest; only the panic hotkey is pressed during it.    *)
(***************************************************************************)
BurstCells == 50        \* cells of the grid: 1 x BurstCells or 2 x BurstCells/2

BurstGrids == {<<1, BurstCells>>, <<2, BurstCells \div 2>>}

InitBurst ==
    /\ \E g \in BurstGrids, o \in {1, 2} :
          CFG = [DefaultCFG EXCEPT !.columns = g[1], !.rows = g[2], !.scan_order = o]
    /\ state = [p00 |-> Point(0, 0), pTR |-> Point(1, 1), pBL |-> Point(1, 1),
                running |-> FALSE]
    /\ shiftDown = FALSE
    /\ run = [p \in Procs |-> IdleRun]
    /\ obs = [p \in Procs |-> FreshObs]
    /\ bareClick = FALSE
    /\ budget = [starts |-> 0, signals |-> 0]

NextBurst ==
    \/ _panic
    \/ run_macro(1)

SpecBurst == InitBurst /\ [][NextBurst]_vars

\* C14: in a run that is not cancelled, the burst check that follows a click
\* sleeps exactly when the click count equals the current threshold, and the
\* count is never above the threshold; the first burst rest comes after 24 to
\* 48 clicks and each later one 24 to 48 clicks after the one before.
BurstStep(p) == run[p].pc = "L282" /\ run'[p].pc = "L289"
LastBurstAt(p) ==
    IF obs[p].burstAt = <<>> THEN 0 ELSE obs[p].burstAt[Len(obs[p].burstAt)]
C14_BurstRestAtThreshold ==
    [][\A p \in Procs :
          (BurstStep(p) /\ state["running"] /\ ~obs[p].sawStop) =>
              LET rested == obs'[p].burstRests - obs[p].burstRests
                  gap == obs[p].clicks - LastBurstAt(p)
              IN  /\ obs[p].clicks = Len(obs[p].clicked)
                  /\ obs[p].clicks <= run[p].next_burst_at
                  /\ rested \in {0, 1}
                  /\ rested = 1 <=> obs[p].clicks = run[p].next_burst_at
                  /\ rested = 1 => gap \in BURST_MIN..BURST_MAX
                  /\ rested = 0 => gap < BURST_MAX]_vars

\* a run has taken its second burst rest, 26 clicks after its first
C14_Witness ==
    /\ run[1].pc = "L289" /\ ~obs[1].sawStop /\ state["running"]
    /\ obs[1].burstAt = <<24, 50>>

\* C15: once _panic has cleared the running flag while a run is in its click
\* loop, the run makes no click in a later iteration and takes no burst rest
\* and no unit rest: it only releases the key and resets the flag.
C15_NothingAfterCancel ==
    \A p \in Procs :
        obs[p].cancelled # <<>> =>
            /\ obs[p].clicks <= obs[p].cancelled.clicks
            /\ obs[p].unitRests = obs[p].cancelled.unitRests
            /\ obs[p].burstRests = obs[p].cancelled.burstRests

\* C16: a panic delivered while the running flag is false (the system idle, or
\* an accepted run in its startup delay) changes neither the flag, the
\* calibration, the configuration, the key nor any invocation, and is not
\* remembered: the run that was in its startup delay then presses the key,
\* enters its loop and, if no read of the flag by the loop returns false,
\* clicks every one of its columns * rows cells once.
IgnoredStep(p) == obs'[p].ignored # obs[p].ignored /\ obs'[p].ignored # ""
C16_IdlePanicChangesNothing ==
    [][\A p \in Procs :
          /\ IgnoredStep(p) =>
                /\ ~state["running"]
                /\ UNCHANGED <<CFG, state, shiftDown, run, bareClick>>
                /\ \A q \in Procs : obs'[q] = [obs[q] EXCEPT !.ignored = obs'[q].ignored]
          /\ (run'[p].pc = "idle" /\ obs'[p].ignored = "delay" /\ ~obs'[p].failed) =>
                /\ obs'[p].result = "done"
                /\ obs'[p].keyDowns = 1
                /\ ~obs'[p].sawStop =>
                      /\ obs'[p].clicks = obs'[p].started.cols * obs'[p].started.rows
                      /\ EachOnce(obs'[p].clicked,
                                  Cells(obs'[p].started.cols, obs'[p].started.rows))]_vars

C16_Witness ==
    \E p \in Procs :
        /\ Returned(p) /\ obs[p].result = "done"
        /\ obs[p].ignored = "delay" /\ ~obs[p].sawStop
        /\ obs[p].clicks = 2

\* C17: whenever no invocation of run_macro is in progress the running flag is
\* false, whichever way the last run ended: completion, cancellation, or a
\* failure of keyDown, moveTo or click after the flag was raised.
C17_IdleMeansNotRunning ==
    (\A p \in Procs : run[p].pc = "idle") => ~state["running"]

(***************************************************************************)
(* SpecSoloFair: SpecSolo in which an invocation in progress keeps taking   *)
(* steps: every sleep and every collaborator call returns or raises.  No   *)
(* hotkey is ever bound to be pressed.                                     *)
(***************************************************************************)
SpecSoloFair == SpecSolo /\ WF_vars(RunStep(1))

\* C18: every accepted run terminates: a run in its startup delay eventually
\* has returned with the key released and the running flag false, whatever
\* panic, capture and reload hotkeys are pressed meanwhile.
C18_AcceptedRunTerminates ==
    \A p \in Procs :
        (run[p].pc \in Starting) ~>
            (run[p].pc = "idle" /\ ~shiftDown /\ ~state["running"])

\* what does hold of every accepted run: it returns
C18_Returns ==
    \A p \in Procs : (run[p].pc \in Starting) ~> (run[p].pc = "idle")

\* C19: the cell width and height a run uses are the calibrated extents
\* divided by exactly the columns and rows it builds its sequence from:
\* cell_w * cols = total width and cell_h * rows = total height, also when
\* the configuration is reloaded while the start request is processed.
C19_CellSizeMatchesGrid ==
    \A p \in Procs :
        obs[p].started # <<>> =>
            LET s == obs[p].started
            IN  /\ Same(Times(s.cols, s.cell_w), Whole(s.cell_w[1]))
                /\ Same(Times(s.rows, s.cell_h), Whole(s.cell_h[1]))

====
